---- MODULE Spec2Model ----
(***************************************************************************)
(* A model of minidoc's inline toggle engine (inline-toggle.ts) and of its *)
(* content scrubber.  The document is a DOM tree held by value; nodes are  *)
(* addressed by paths (1-based child indices from the editor root) and     *)
(* boundary points are (path, offset) pairs with DOM offsets (0-based).    *)
(***************************************************************************)
EXTENDS Integers, Sequences, FiniteSets, TLC

(***************************************************************************)
(* DOM nodes.  A text node carries its characters in s; an element carries *)
(* its tag name (upper case, as Element.tagName reports it), its           *)
(* attributes and its child nodes.                                         *)
(***************************************************************************)
Text(s) == [t |-> "#text", a |-> {}, s |-> s, c |-> <<>>]

El(tag, attrs, kids) == [t |-> tag, a |-> attrs, s |-> <<>>, c |-> kids]

IsText(n) == n.t = "#text"

\* a comment node carries its data in s
Comment(s) == [t |-> "#comment", a |-> {}, s |-> s, c |-> <<>>]

isElement(n) == n.t \notin {"#text", "#comment"}

\* Node.length: characters of a text node, children of an element
Length(n) == IF IsText(n) THEN Len(n.s) ELSE Len(n.c)

Front(p) == SubSeq(p, 1, Len(p) - 1)

Last(p) == p[Len(p)]

IsPrefix(p, q) == Len(p) <= Len(q) /\ SubSeq(q, 1, Len(p)) = p

\* the value standing for null / undefined where a path is expected
None == <<0>>

RECURSIVE NodeAt(_, _)
NodeAt(n, p) == IF p = <<>> THEN n ELSE NodeAt(n.c[Head(p)], Tail(p))

RECURSIVE SetNode(_, _, _)
SetNode(n, p, x) ==
  IF p = <<>> THEN x ELSE [n EXCEPT !.c[Head(p)] = SetNode(@, Tail(p), x)]

SpliceSeq(s, i, k, new) == SubSeq(s, 1, i) \o new \o SubSeq(s, i + k + 1, Len(s))

\* in the element at path p, replace the k children after offset i by new
Splice(n, p, i, k, new) ==
  SetNode(n, p, [NodeAt(n, p) EXCEPT !.c = SpliceSeq(@, i, k, new)])

RECURSIVE CommonLen(_, _)
CommonLen(p, q) ==
  IF p = <<>> \/ q = <<>> \/ Head(p) # Head(q) THEN 0
  ELSE 1 + CommonLen(Tail(p), Tail(q))

\* Range.commonAncestorContainer
CommonAncestor(r) == SubSeq(r.sc, 1, CommonLen(r.sc, r.ec))

Rng(sc, so, ec, eo) == [sc |-> sc, so |-> so, ec |-> ec, eo |-> eo]

collapsed(r) == r.sc = r.ec /\ r.so = r.eo

\* Range.collapse(true)
CollapseToStart(r) == Rng(r.sc, r.so, r.sc, r.so)

\* Range.collapse()
CollapseToEnd(r) == Rng(r.ec, r.eo, r.ec, r.eo)

(***************************************************************************)
(* Range.extractContents, after the DOM standard's "extract a range":      *)
(* partially contained nodes are cloned and split, contained children are  *)
(* moved into the fragment.  sp and ep are relative to n.                  *)
(***************************************************************************)
PartialClone(child, sub) ==
  IF IsText(child) THEN sub.frag[1] ELSE [child EXCEPT !.c = sub.frag]

RECURSIVE ExtractIn(_, _, _, _, _)
ExtractIn(n, sp, so, ep, eo) ==
  IF sp = <<>> /\ ep = <<>> THEN
    IF IsText(n)
    THEN [rem |-> Text(SpliceSeq(n.s, so, eo - so, <<>>)),
          frag |-> <<Text(SubSeq(n.s, so + 1, eo))>>]
    ELSE [rem |-> [n EXCEPT !.c = SpliceSeq(@, so, eo - so, <<>>)],
          frag |-> SubSeq(n.c, so + 1, eo)]
  ELSE IF sp = <<>> THEN
    LET j == Head(ep)
        sub == ExtractIn(n.c[j], <<>>, 0, Tail(ep), eo)
    IN [rem |-> [n EXCEPT !.c = SubSeq(@, 1, so) \o <<sub.rem>> \o SubSeq(@, j + 1, Len(@))],
        frag |-> SubSeq(n.c, so + 1, j - 1) \o <<PartialClone(n.c[j], sub)>>]
  ELSE IF ep = <<>> THEN
    LET i == Head(sp)
        sub == ExtractIn(n.c[i], Tail(sp), so, <<>>, Length(n.c[i]))
    IN [rem |-> [n EXCEPT !.c = SubSeq(@, 1, i - 1) \o <<sub.rem>> \o SubSeq(@, eo + 1, Len(@))],
        frag |-> <<PartialClone(n.c[i], sub)>> \o SubSeq(n.c, i + 1, eo)]
  ELSE IF Head(sp) = Head(ep) THEN
    LET sub == ExtractIn(n.c[Head(sp)], Tail(sp), so, Tail(ep), eo)
    IN [rem |-> [n EXCEPT !.c[Head(sp)] = sub.rem], frag |-> sub.frag]
  ELSE
    LET i == Head(sp)
        j == Head(ep)
        first == ExtractIn(n.c[i], Tail(sp), so, <<>>, Length(n.c[i]))
        last == ExtractIn(n.c[j], <<>>, 0, Tail(ep), eo)
    IN [rem |-> [n EXCEPT !.c = SubSeq(@, 1, i - 1) \o <<first.rem, last.rem>>
                                   \o SubSeq(@, j + 1, Len(@))],
        frag |-> <<PartialClone(n.c[i], first)>> \o SubSeq(n.c, i + 1, j - 1)
                   \o <<PartialClone(n.c[j], last)>>]

\* where the range collapses to after an extraction (steps 12-13 and 19)
ExtractPoint(r) ==
  IF IsPrefix(r.sc, r.ec) THEN Rng(r.sc, r.so, r.sc, r.so)
  ELSE LET k == CommonLen(r.sc, r.ec)
       IN Rng(SubSeq(r.sc, 1, k), r.sc[k + 1], SubSeq(r.sc, 1, k), r.sc[k + 1])

extractContents(root, r) ==
  IF collapsed(r) THEN [root |-> root, frag |-> <<>>, r |-> r]
  ELSE LET x == ExtractIn(root, r.sc, r.so, r.ec, r.eo)
       IN [root |-> x.rem, frag |-> x.frag, r |-> ExtractPoint(r)]

(***************************************************************************)
(* Range.insertNode on a collapsed range (every call site inserts into a   *)
(* range it has just collapsed): a text start container is split at the    *)
(* offset, also at offset 0 or at its end, which leaves an empty text      *)
(* node; afterwards the range ends behind the inserted nodes.              *)
(***************************************************************************)
insertNode(root, r, nodes) ==
  LET n == NodeAt(root, r.sc)
  IN IF IsText(n)
     THEN LET pp == Front(r.sc)
              idx == Last(r.sc)
              halves == <<Text(SubSeq(n.s, 1, r.so)), Text(SubSeq(n.s, r.so + 1, Len(n.s)))>>
          IN [root |-> Splice(root, pp, idx - 1, 1, <<halves[1]>> \o nodes \o <<halves[2]>>),
              r |-> Rng(r.sc, r.so, pp, idx + Len(nodes))]
     ELSE [root |-> Splice(root, r.sc, r.so, 0, nodes),
           r |-> Rng(r.sc, r.so, r.sc, r.so + Len(nodes))]

(***************************************************************************)
(* Removing the child at path q, with the adjustment the DOM makes to a    *)
(* live range's boundary points when a node is removed.                    *)
(***************************************************************************)
RemovePoint(pt, q) ==
  LET pp == Front(q)
      i == Last(q)
  IN IF IsPrefix(q, pt.p) THEN [p |-> pp, o |-> i - 1]
     ELSE IF pt.p = pp THEN [p |-> pp, o |-> IF pt.o > i - 1 THEN pt.o - 1 ELSE pt.o]
     ELSE IF IsPrefix(pp, pt.p) /\ pt.p[Len(pp) + 1] > i
          THEN [p |-> [pt.p EXCEPT ![Len(pp) + 1] = @ - 1], o |-> pt.o]
          ELSE pt

RemoveRange(r, q) ==
  LET s == RemovePoint([p |-> r.sc, o |-> r.so], q)
      e == RemovePoint([p |-> r.ec, o |-> r.eo], q)
  IN Rng(s.p, s.o, e.p, e.o)

RemoveNode(root, q) == Splice(root, Front(q), Last(q) - 1, 1, <<>>)

(***************************************************************************)
(* Tag names.  toggleInline is called with any spelling; Element.tagName   *)
(* and the keys of activeTags / toggledTags are upper case.                *)
(***************************************************************************)
toUpperCase(tagName) ==
  CASE tagName \in {"b", "B"} -> "B"
    [] tagName \in {"strong", "Strong", "STRONG"} -> "STRONG"
    [] tagName \in {"i", "I"} -> "I"
    [] tagName \in {"em", "EM"} -> "EM"
    [] tagName \in {"mark", "MARK"} -> "MARK"
    [] tagName \in {"p", "P"} -> "P"
    [] OTHER -> tagName

\* normalizeTagName without the aliases: upper case only
normalizeTagNameNoAlias(tagName) == toUpperCase(tagName)

normalizeTagName(tagName) ==
  LET u == toUpperCase(tagName)
  IN IF u = "B" THEN "STRONG" ELSE IF u = "I" THEN "EM" ELSE u

\* the element tags matched by normalizeSelector(tagName)
normalizeSelector(tagName) ==
  LET u == toUpperCase(tagName)
  IN IF u \in {"B", "STRONG"} THEN {"B", "STRONG"}
     ELSE IF u \in {"I", "EM"} THEN {"I", "EM"}
     ELSE {u}

\* Element.matches(selector), false of a text node
Matches(n, selector) == isElement(n) /\ n.t \in selector

\* Dom.isBlock: the elements that lay out as blocks
isBlock(n) ==
  n.t \in {"ROOT", "P", "DIV", "BLOCKQUOTE", "H1", "H2", "H3", "H4", "UL", "OL", "LI"}

isRoot(n) == n.t = "ROOT"

\* h(tagName, ...children): a new element without attributes
h(tagName, kids) == El(toUpperCase(tagName), {}, kids)

RECURSIVE isEmpty(_)
isEmpty(n) ==
  IF IsText(n) THEN n.s = <<>>
  ELSE \A i \in 1..Len(n.c) : isEmpty(n.c[i])

isEmptyFragment(nodes) == \A i \in 1..Len(nodes) : isEmpty(nodes[i])

\* Rng.toNode: the node the range starts in, its start container
toNode(r) == r.sc

\* the path of the element a node stands for: itself, or its parentElement
ElementOf(root, p) ==
  IF isElement(NodeAt(root, p)) THEN p ELSE IF p = <<>> THEN None ELSE Front(p)

\* Element.closest(selector) from the element at path p (None from None)
RECURSIVE closestFrom(_, _, _)
closestFrom(root, p, selector) ==
  IF p = None THEN None
  ELSE IF Matches(NodeAt(root, p), selector) THEN p
  ELSE IF p = <<>> THEN None
  ELSE closestFrom(root, Front(p), selector)

\* Dom.closest(selector, node)
closest(root, selector, p) == closestFrom(root, ElementOf(root, p), selector)

\* Element.querySelector(selector) finds a descendant
RECURSIVE Contains(_, _)
Contains(n, selector) ==
  \E i \in 1..Len(n.c) : Matches(n.c[i], selector) \/ Contains(n.c[i], selector)

(***************************************************************************)
(* Contiguity merging.                                                     *)
(***************************************************************************)
\* the node at path pa absorbs the children of its next sibling when both
\* match the selector (the callers pass a node and its neighbour)
mergeMatchingNodes(root, selector, pa) ==
  LET pb == [pa EXCEPT ![Len(pa)] = @ + 1]
      a == NodeAt(root, pa)
      b == NodeAt(root, pb)
  IN IF Matches(a, selector) /\ Matches(b, selector)
     THEN [root |-> Splice(root, Front(pa), Last(pa) - 1, 2, <<[a EXCEPT !.c = @ \o b.c]>>),
           merged |-> TRUE]
     ELSE [root |-> root, merged |-> FALSE]

RECURSIVE HoistMatching(_, _)
HoistMatching(kids, selector) ==
  IF kids = <<>> THEN <<>>
  ELSE (IF Matches(Head(kids), selector) THEN Head(kids).c ELSE <<Head(kids)>>)
         \o HoistMatching(Tail(kids), selector)

\* Rng.fromNodes: the range from before the first node to behind the last;
\* the nodes are the n children of the element at path p behind offset f
fromNodes(p, f, n) == Rng(p, f, p, f + n)

\* makeContiguous, returning the tree and the range around the children
makeContiguous(root, tagName, pe) ==
  LET selector == normalizeSelector(tagName)
      mergeNext(m1, r2, prev, el2, f2, n) ==
        LET el3 == IF m1.merged THEN prev ELSE el2
            f3 == IF m1.merged THEN Len(NodeAt(r2, prev).c) + f2 ELSE f2
            hasNext == el3 # <<>> /\ Last(el3) < Len(NodeAt(m1.root, Front(el3)).c)
            m2 == IF hasNext THEN mergeMatchingNodes(m1.root, selector, el3)
                  ELSE [root |-> m1.root, merged |-> FALSE]
        IN [root |-> m2.root, r |-> fromNodes(el3, f3, n)]
      mergePrev(r2, el2, f2, n) ==
        LET prev == IF el2 # <<>> /\ Last(el2) > 1 THEN [el2 EXCEPT ![Len(el2)] = @ - 1] ELSE None
        IN mergeNext(IF prev = None THEN [root |-> r2, merged |-> FALSE]
                     ELSE mergeMatchingNodes(r2, selector, prev),
                     r2, prev, el2, f2, n)
      unwrap(r1) ==
        LET n == Len(NodeAt(r1, pe).c)
            inside == closestFrom(r1, Front(pe), selector) # None
        IN mergePrev(IF inside THEN Splice(r1, Front(pe), Last(pe) - 1, 1, NodeAt(r1, pe).c) ELSE r1,
                     IF inside THEN Front(pe) ELSE pe,
                     IF inside THEN Last(pe) - 1 ELSE 0,
                     n)
  IN unwrap(SetNode(root, pe, [NodeAt(root, pe) EXCEPT !.c = HoistMatching(@, selector)]))

\* Create a single range that encompasses the array of ranges
toRange(ranges) ==
  Rng(ranges[1].sc, ranges[1].so, ranges[Len(ranges)].ec, ranges[Len(ranges)].eo)

(***************************************************************************)
(* unapply                                                                 *)
(***************************************************************************)
RECURSIVE InlineTagsFrom(_, _, _)
InlineTagsFrom(root, until, p) ==
  IF p = None THEN <<>>
  ELSE LET el == NodeAt(root, p)
       IN IF Matches(el, until) \/ isBlock(el) THEN <<>>
          ELSE <<el.t>> \o (IF p = <<>> THEN <<>> ELSE InlineTagsFrom(root, until, Front(p)))

\* a Set<string> keeps the first insertion of each name
RECURSIVE SetOrder(_)
SetOrder(names) ==
  IF names = <<>> THEN <<>>
  ELSE LET init == SetOrder(Front(names))
       IN IF \E i \in 1..Len(init) : init[i] = Last(names) THEN init
          ELSE Append(init, Last(names))

getInlineTags(root, until, p) == SetOrder(InlineTagsFrom(root, until, ElementOf(root, p)))

\* the fragment with every element that matches removed, children and all
RECURSIVE RemoveMatching(_, _)
RemoveMatching(nodes, selector) ==
  IF nodes = <<>> THEN <<>>
  ELSE LET n == Head(nodes)
       IN (IF Matches(n, selector) THEN <<>>
           ELSE IF isElement(n) THEN <<[n EXCEPT !.c = RemoveMatching(@, selector)]>> ELSE <<n>>)
            \o RemoveMatching(Tail(nodes), selector)

\* replaceSelfWithChildren on every element of the fragment that matches
RECURSIVE UnwrapMatching(_, _)
UnwrapMatching(nodes, selector) ==
  IF nodes = <<>> THEN <<>>
  ELSE LET n == Head(nodes)
           kids == UnwrapMatching(n.c, selector)
       IN (IF Matches(n, selector) THEN kids
           ELSE IF isElement(n) THEN <<[n EXCEPT !.c = kids]>> ELSE <<n>>)
            \o UnwrapMatching(Tail(nodes), selector)

RECURSIVE RestoreTags(_, _)
RestoreTags(tagNames, content) ==
  IF tagNames = <<>> THEN content
  ELSE RestoreTags(Tail(tagNames), <<h(Head(tagNames), content)>>)

\* lines 127-133: split the closest matching element behind the range; it
\* is an inclusive ancestor of the start container and so stays in the tree
SplitClosest(root, r, cl) ==
  LET removeIfEmpty(ins) ==
        IF isEmpty(NodeAt(ins.root, cl))
        THEN [root |-> RemoveNode(ins.root, cl), r |-> RemoveRange(ins.r, cl)]
        ELSE ins
      insertTail(tail) ==
        removeIfEmpty(IF ~isEmptyFragment(tail.frag) THEN insertNode(tail.root, tail.r, tail.frag)
                      ELSE [root |-> tail.root, r |-> tail.r])
  IN insertTail(extractContents(root, Rng(r.sc, r.so, Front(cl), Last(cl))))

unapply(root, tagName, r) ==
  LET selector == normalizeSelector(tagName)
      tagNames == getInlineTags(root, selector, toNode(r))
      insert(y, content) == insertNode(y.root, CollapseToStart(y.r), content)
      split(x, cl) ==
        insert(IF cl = None THEN [root |-> x.root, r |-> x.r] ELSE SplitClosest(x.root, x.r, cl),
               RestoreTags(tagNames, UnwrapMatching(x.frag, selector)))
      extracted(x) == split(x, closest(x.root, selector, toNode(x.r)))
  IN extracted(extractContents(root, r))

\* shouldEnable that takes every selection for one to remove the tag from
shouldEnableNever(root, selector, ranges) == FALSE

\* shouldEnable without the test of the elements around the start
shouldEnableContainsOnly(root, selector, ranges) ==
  LET node == toNode(ranges[1])
  IN ~(isElement(NodeAt(root, node)) /\ Contains(NodeAt(root, node), selector))

shouldEnable(root, selector, ranges) ==
  LET node == toNode(ranges[1])
      isWithin == closest(root, selector, node) # None
      contains == isElement(NodeAt(root, node)) /\ Contains(NodeAt(root, node), selector)
  IN ~isWithin /\ ~contains

(***************************************************************************)
(* Rng.inlinableRanges: the range cut at the block boundaries, one         *)
(* sub-range per block of the root that the range touches.                 *)
(***************************************************************************)
inlinableRanges(root, range) ==
  LET i == range.sc[1]
      j == range.ec[1]
  IN IF i = j THEN <<range>>
     ELSE [k \in 1..(j - i + 1) |->
            IF k = 1 THEN Rng(range.sc, range.so, <<i>>, Len(root.c[i].c))
            ELSE IF k = j - i + 1 THEN Rng(<<j>>, 0, range.ec, range.eo)
            ELSE Rng(<<i + k - 1>>, 0, <<i + k - 1>>, Len(root.c[i + k - 1].c))]

\* lines 167-172: wrap one sub-range
applyRange(root, tagName, r) ==
  LET wrapped(ins, el) == makeContiguous(ins.root, tagName, el)
      extracted(x) ==
        wrapped(insertNode(x.root, x.r, <<h(tagName, x.frag)>>),
                IF IsText(NodeAt(x.root, x.r.sc))
                THEN Front(x.r.sc) \o <<Last(x.r.sc) + 1>>
                ELSE x.r.sc \o <<x.r.so + 1>>)
  IN extracted(extractContents(root, r))

\* ranges.forEach: the sub-ranges from the k-th on
RECURSIVE forEachRange(_, _, _, _, _)
forEachRange(root, tagName, ranges, enable, k) ==
  IF k > Len(ranges) THEN [root |-> root, ranges |-> ranges]
  ELSE LET rest(x) == forEachRange(x.root, tagName, [ranges EXCEPT ![k] = x.r], enable, k + 1)
       IN rest(IF enable THEN applyRange(root, tagName, ranges[k])
               ELSE unapply(root, tagName, ranges[k]))

\* the first empty element below the node at p that matches, in tree order
RECURSIVE FirstEmpty(_, _, _, _)
FirstEmpty(root, p, selector, i) ==
  LET n == NodeAt(root, p)
  IN IF i > Len(n.c) THEN None
     ELSE IF Matches(n.c[i], selector) /\ isEmpty(n.c[i]) THEN p \o <<i>>
     ELSE LET below == FirstEmpty(root, p \o <<i>>, selector, 1)
          IN IF below # None THEN below ELSE FirstEmpty(root, p, selector, i + 1)

\* lines 177-179
RECURSIVE removeEmpty(_, _, _, _)
removeEmpty(root, r, container, selector) ==
  LET q == FirstEmpty(root, container, selector, 1)
  IN IF q = None THEN [root |-> root, r |-> r]
     ELSE removeEmpty(RemoveNode(root, q), RemoveRange(r, q), container, selector)

\* toggleInlineSelection over the range as it is, not cut at the blocks
toggleInlineSelectionWhole(root, tagName, range) ==
  IF collapsed(range) THEN [root |-> root, r |-> range]
  ELSE LET selector == normalizeSelector(tagName)
           cleaned(done, result) ==
             LET container == CommonAncestor(result)
             IN IF isElement(NodeAt(done.root, container))
                THEN removeEmpty(done.root, result, container, selector)
                ELSE [root |-> done.root, r |-> result]
           toggled(done) == cleaned(done, toRange(done.ranges))
           forEach(ranges) ==
             toggled(forEachRange(root, tagName, ranges, shouldEnable(root, selector, ranges), 1))
       IN forEach(<<range>>)

toggleInlineSelection(root, tagName, range) ==
  IF collapsed(range) THEN [root |-> root, r |-> range]
  ELSE LET selector == normalizeSelector(tagName)
           cleaned(done, result) ==
             LET container == CommonAncestor(result)
             IN IF isElement(NodeAt(done.root, container))
                THEN removeEmpty(done.root, result, container, selector)
                ELSE [root |-> done.root, r |-> result]
           toggled(done) == cleaned(done, toRange(done.ranges))
           forEach(ranges) ==
             toggled(forEachRange(root, tagName, ranges, shouldEnable(root, selector, ranges), 1))
       IN forEach(inlinableRanges(root, range))

(***************************************************************************)
(* The scrubber.  An attribute is a <<name, value>> pair.  The context's   *)
(* fragment is held as a node whose children are the top-level nodes of    *)
(* the output; the stack and the leaf hold paths into it.                  *)
(***************************************************************************)
\* String.startsWith('javascript:') over the attribute values of the model
startsWithJavascript(val) == val \in {"javascript:alert(1)"}

\* getAttribute(a) || undefined: the empty value reads as undefined
isSafeUrl(val) == val = "" \/ ~startsWithJavascript(val)

\* rules.leaf and rules.child: the tags that have an entry
rulesLeaf == {"P", "BLOCKQUOTE", "H1", "H2", "H3", "H4", "UL", "OL"}

rulesChild == {"A", "I", "B", "BR", "STRONG", "EM", "MARK", "LI"}

\* attrRules[a] is true, or is a function that accepts the value; the rules
\* are plain objects, where "constructor" reads as the function Object
isAllowable(tagName, a, val) ==
  IF a = "constructor" THEN TRUE
  ELSE IF tagName \in rulesLeaf THEN FALSE
  ELSE IF tagName = "A" /\ a = "href" THEN isSafeUrl(val)
  ELSE IF tagName = "MARK" /\ a = "data-bg" THEN TRUE
  ELSE FALSE

isCard(n) == n.t = "MINI-CARD"

isList(n) == n.t \in {"UL", "OL"}

sanitizeAttrs(tagName, el) ==
  El(tagName,
     IF tagName \in rulesLeaf \cup rulesChild
     THEN {x \in el.a : isAllowable(tagName, x[1], x[2])}
     ELSE {},
     <<>>)

\* sanitizeLeaf that keeps the tag of an element that is no policy leaf
sanitizeLeafKeepTag(node) == sanitizeAttrs(node.t, node)

sanitizeLeaf(node) == sanitizeAttrs(IF node.t \in rulesLeaf THEN node.t ELSE "P", node)

sanitizeInline(node) == sanitizeAttrs(node.t, node)

scrubContext == [frag |-> El("#fragment", {}, <<>>), stack |-> <<>>, leaf |-> None, thrown |-> FALSE]

\* set leaf(val) with an element: the stack starts over from the new leaf
setLeaf(me, val) ==
  LET p == <<Len(me.frag.c) + 1>>
  IN [me EXCEPT !.leaf = p, !.stack = <<p>>, !.frag.c = Append(@, val)]

\* set leaf(undefined)
unsetLeaf(me) == [me EXCEPT !.leaf = None, !.stack = <<>>]

\* get current(): undefined when the stack is empty
current(me) == IF me.stack = <<>> THEN None ELSE Last(me.stack)

addLeaf(me, node) == setLeaf(me, node)

closeLeaf(me) == unsetLeaf(me)

\* me.addInline: appending to an undefined current throws a TypeError
ctxAddInline(me, node) ==
  LET m1 == IF me.leaf = None THEN setLeaf(me, h("p", <<>>)) ELSE me
      cur == current(m1)
  IN IF cur = None THEN [m1 EXCEPT !.thrown = TRUE]
     ELSE LET p == cur \o <<Len(NodeAt(m1.frag, cur).c) + 1>>
              m2 == [m1 EXCEPT !.frag = Splice(@, cur, Len(NodeAt(m1.frag, cur).c), 0, <<node>>)]
          IN IF isElement(node) THEN [m2 EXCEPT !.stack = Append(@, p)] ELSE m2

\* stack.pop()
closeInline(me) == IF me.stack = <<>> THEN me ELSE [me EXCEPT !.stack = Front(@)]

\* the character that stands for white space
Blank == 0

\* textContent.trim().length of a text or comment node
trimLength(s) == Len(SelectSeq(s, LAMBDA ch : ch # Blank))

\* the filter of the top-level nodes, lines 449-454
keepTopLevel(n) == IF isElement(n) THEN n.c # <<>> ELSE trimLength(n.s) > 0

\* scrub that takes every list for inline content, inside a list item or not
scrubBranchListInline(node, me) ==
  IF isCard(node) THEN "card"
  ELSE IF isList(node) THEN "addInline"
  ELSE IF ~isElement(node) THEN "text"
  ELSE IF node.t \in rulesLeaf \/ (node.t \notin rulesChild /\ isBlock(node)) THEN "promoteToLeaf"
  ELSE IF node.t \in rulesChild THEN "addInline"
  ELSE "scrubChildren"

\* which branch of scrub(node, ctx) a node takes, lines 413-443
scrubBranch(node, me) ==
  IF isCard(node) THEN "card"
  ELSE IF isList(node)
    THEN (IF current(me) # None /\ Matches(NodeAt(me.frag, current(me)), {"LI"})
          THEN "addInline" ELSE "promoteToLeaf")
  ELSE IF ~isElement(node) THEN "text"
  ELSE IF node.t \in rulesLeaf \/ (node.t \notin rulesChild /\ isBlock(node)) THEN "promoteToLeaf"
  ELSE IF node.t \in rulesChild THEN "addInline"
  ELSE "scrubChildren"

\* scrubChildren that takes the children from the last to the first
scrubTasksBackwards(childNodes) ==
  [i \in 1..Len(childNodes) |-> [k |-> "scrub", node |-> childNodes[Len(childNodes) + 1 - i]]]

\* the calls scrubChildren makes, in order
scrubTasks(childNodes) == [i \in 1..Len(childNodes) |-> [k |-> "scrub", node |-> childNodes[i]]]

(***************************************************************************)
(* The documents and selections an editor session starts from: one or more *)
(* paragraphs of inline content as the scrubber emits them, the characters *)
(* numbered in document order.                                             *)
(***************************************************************************)
MaxSize == 5

MaxEls == 2

MaxDepth == 2

MaxBlocks == 2

MaxOps == 2

InitTags == {"STRONG", "B", "EM"}

ToggleNames == {"strong", "b", "em"}

\* the inline forests over the characters s with exactly e elements, nested
\* at most d deep, no element empty and no two text nodes adjacent
RECURSIVE Forests(_, _, _)
Forests(s, d, e) ==
  IF s = <<>> THEN (IF e = 0 THEN {<<>>} ELSE {})
  ELSE UNION {
    LET run == SubSeq(s, 1, x[1])
        firsts == IF x[2] = 0 THEN {Text(run)}
                  ELSE IF d = 0 THEN {}
                  ELSE {El(t, {}, f) : t \in InitTags, f \in Forests(run, d - 1, x[2] - 1)}
        rests == Forests(SubSeq(s, x[1] + 1, Len(s)), d, e - x[2])
    IN {<<y[1]>> \o y[2] :
          y \in {z \in firsts \X rests : ~(IsText(z[1]) /\ z[2] # <<>> /\ IsText(z[2][1]))}}
    : x \in (1..Len(s)) \X (0..e)}

\* the ways to cut the characters lo..hi into at most n paragraphs that
\* hold e inline elements between them
RECURSIVE Blocks(_, _, _, _)
Blocks(lo, hi, n, e) ==
  IF lo > hi THEN (IF e = 0 THEN {<<>>} ELSE {})
  ELSE IF n = 0 THEN {}
  ELSE UNION {
    {<<El("P", {}, y[1])>> \o y[2] :
       y \in Forests([i \in 1..(x[1] - lo + 1) |-> lo + i - 1], MaxDepth, x[2])
               \X Blocks(x[1] + 1, hi, n - 1, e - x[2])}
    : x \in (lo..hi) \X (0..e)}

\* documents of MaxSize characters and inline elements together, of which
\* at most MaxEls are elements
InitDocs ==
  {El("ROOT", {}, b) :
     b \in UNION {Blocks(1, MaxSize - x[1], MaxBlocks, x[2]) :
                    x \in {y \in (0..MaxEls) \X (0..MaxEls) : y[2] <= y[1]}}}

\* the boundary points inside the non-empty text nodes below the node at p
RECURSIVE TextPoints(_, _)
TextPoints(root, p) ==
  LET n == NodeAt(root, p)
  IN IF IsText(n) THEN {[p |-> p, o |-> o] : o \in (IF n.s = <<>> THEN {} ELSE 0..Len(n.s))}
     ELSE UNION {TextPoints(root, p \o <<i>>) : i \in 1..Len(n.c)}

RECURSIVE PathLess(_, _)
PathLess(p, q) ==
  IF q = <<>> THEN FALSE
  ELSE IF p = <<>> THEN TRUE
  ELSE Head(p) < Head(q) \/ (Head(p) = Head(q) /\ PathLess(Tail(p), Tail(q)))

\* the selections a user can make: a caret, or a range with its start first
Selections(root) ==
  LET pts == TextPoints(root, <<>>)
  IN {Rng(x[1].p, x[1].o, x[2].p, x[2].o) :
        x \in {y \in pts \X pts : (y[1].p = y[2].p /\ y[1].o <= y[2].o)
                                    \/ PathLess(y[1].p, y[2].p)}}

(***************************************************************************)
(* The editor session (inlineTogglable).                                   *)
(***************************************************************************)
VARIABLES
  doc,          \* the tree below editor.root
  sel,          \* Rng.currentRange()
  activeTags,   \* the tags within which the current selection resides
  toggledTags,  \* the tags which are toggled, in insertion order
  isToggling,   \* the flag that masks a toggle's own caret change
  timers,       \* pending timeouts: 2 for the outer, 1 for the inner one
  caretEvents,  \* 1 while a mini:caretchange event is scheduled, else 0
  budget,       \* the commands (toggleInline calls, key presses) still to explore
  last,         \* the last command and the state it ran in
  before,       \* the command before it
  sinceToggle,  \* the timeouts that fired since the last collapsed toggle
  input,        \* the child nodes of the fragment handed to scrub
  todo,         \* the calls of the scrubber still to make, the next one first
  ctx,          \* the scrubContext of the call
  phase         \* "idle", "scrubbing", "returned" or "thrown"

sessionVars ==
  <<doc, sel, activeTags, toggledTags, isToggling, timers, caretEvents, budget, last, before,
    sinceToggle>>

scrubVars == <<input, todo, ctx, phase>>

vars == <<sessionVars, scrubVars>>

\* no scrub call is under way
ScrubIdle == input = <<>> /\ todo = <<>> /\ ctx = scrubContext /\ phase = "idle"

\* the normalized tag names of the elements around the caret, below the root
RECURSIVE ParentTags(_, _)
ParentTags(root, p) ==
  IF p = <<>> \/ Front(p) = <<>> THEN {}
  ELSE {normalizeTagName(NodeAt(root, Front(p)).t)} \cup ParentTags(root, Front(p))

enclosingTags(root, r) == ParentTags(root, toNode(r))

has(tags, name) == \E i \in 1..Len(tags) : tags[i] = name

\* isActive with the name as it was passed
isActiveInRaw(active, toggled, tagName) == (tagName \in active) = ~has(toggled, tagName)

\* result.isActive, lines 275-278, over given tag sets
isActiveIn(active, toggled, tagName) ==
  LET normalized == normalizeTagName(tagName)
  IN (normalized \in active) = ~has(toggled, normalized)

isActive(tagName) == isActiveIn(activeTags, toggledTags, tagName)

delete(tags, name) == SelectSeq(tags, LAMBDA x : x # name)

NoCommand == [op |-> "none"]

\* the timeouts between a collapsed toggle and the clearing of its guard:
\* setTimeout inside setTimeout, lines 208-212
GuardTicks == 2

Command(op, tagName) ==
  [op |-> op, tag |-> tagName, doc |-> doc, sel |-> sel,
   activeTags |-> activeTags, toggledTags |-> toggledTags]

Init ==
  /\ doc \in InitDocs
  /\ sel \in Selections(doc)
  /\ activeTags = enclosingTags(doc, sel)
  /\ toggledTags = <<>>
  /\ isToggling = FALSE
  /\ timers = <<>>
  /\ caretEvents = 0
  /\ budget = MaxOps
  /\ last = NoCommand
  /\ before = NoCommand
  /\ sinceToggle = GuardTicks
  /\ ScrubIdle

\* toggleInline on a selection: lines 200-201 and 214
ToggleSelection(tagName) ==
  /\ budget > 0
  /\ ~collapsed(sel)
  /\ LET selected(x) == doc' = x.root /\ sel' = x.r
     IN selected(toggleInlineSelection(doc, tagName, sel))
  /\ caretEvents' = 1
  /\ budget' = budget - 1
  /\ last' = Command("toggleSelection", tagName)
  /\ before' = last
  /\ sinceToggle' = GuardTicks
  /\ UNCHANGED <<activeTags, toggledTags, isToggling, timers>>
  /\ UNCHANGED scrubVars

\* toggleInline at a caret: lines 202-214
ToggleCaret(tagName) ==
  /\ budget > 0
  /\ collapsed(sel)
  /\ isToggling' = TRUE
  /\ LET normalized == normalizeTagName(tagName)
     IN toggledTags' = IF has(toggledTags, normalized) THEN delete(toggledTags, normalized)
                       ELSE Append(toggledTags, normalized)
  /\ timers' = Append(timers, GuardTicks)
  /\ caretEvents' = 1
  /\ last' = Command("toggleCaret", tagName)
  /\ before' = last
  /\ sinceToggle' = 0
  /\ budget' = budget - 1
  /\ UNCHANGED <<doc, sel, activeTags>>
  /\ UNCHANGED scrubVars

\* a timeout fires: the outer one sets the inner one, the inner one clears the flag
TimerTick ==
  /\ timers # <<>>
  /\ IF Head(timers) = GuardTicks
     THEN timers' = Append(Tail(timers), 1) /\ UNCHANGED isToggling
     ELSE timers' = Tail(timers) /\ isToggling' = FALSE
  /\ sinceToggle' = IF sinceToggle < GuardTicks THEN sinceToggle + 1 ELSE sinceToggle
  /\ UNCHANGED <<doc, sel, activeTags, toggledTags, caretEvents, budget, last, before>>
  /\ UNCHANGED scrubVars

\* the mini:caretchange handler, lines 219-238
CaretChange ==
  /\ caretEvents > 0
  /\ caretEvents' = caretEvents - 1
  /\ IF isToggling THEN UNCHANGED <<activeTags, toggledTags>>
     ELSE /\ activeTags' = enclosingTags(doc, sel)
          /\ toggledTags' = <<>>
  /\ UNCHANGED <<doc, sel, isToggling, timers, budget, last, before, sinceToggle>>
  /\ UNCHANGED scrubVars

RECURSIVE CharsOf(_)
CharsOf(n) ==
  IF IsText(n) THEN {n.s[i] : i \in 1..Len(n.s)}
  ELSE UNION {CharsOf(n.c[i]) : i \in 1..Len(n.c)}

\* the character a key press types, new to the document
TypedChar(root) == 1 + Cardinality(CharsOf(root))

\* toggledTags.forEach((k) => range = toggleInlineSelection(k, range))
RECURSIVE forEachToggled(_, _, _)
forEachToggled(root, range, tags) ==
  IF tags = <<>> THEN [root |-> root, r |-> range]
  ELSE LET rest(x) == forEachToggled(x.root, x.r, Tail(tags))
       IN rest(toggleInlineSelection(root, Head(tags), range))

\* the keypress handler, lines 242-260
Keypress ==
  /\ budget > 0
  /\ toggledTags # <<>>
  /\ LET selected(x) == doc' = x.root /\ sel' = CollapseToEnd(x.r)
         inserted(ins) == selected(forEachToggled(ins.root, ins.r, toggledTags))
         deleted(del) == inserted(insertNode(del.root, del.r, <<Text(<<TypedChar(doc)>>)>>))
     IN deleted(extractContents(doc, sel))
  /\ toggledTags' = <<>>
  /\ caretEvents' = 1
  /\ last' = Command("keypress", "")
  /\ before' = last
  /\ sinceToggle' = GuardTicks
  /\ budget' = budget - 1
  /\ UNCHANGED <<activeTags, isToggling, timers>>
  /\ UNCHANGED scrubVars

Next ==
  \/ \E tagName \in ToggleNames : ToggleSelection(tagName)
  \/ \E tagName \in ToggleNames : ToggleCaret(tagName)
  \/ TimerTick
  \/ CaretChange
  \/ Keypress

Spec == Init /\ [][Next]_vars

(***************************************************************************)
(* The same session with a caret only: the commands are collapsed toggles  *)
(* and key presses, on the documents of one paragraph with the most        *)
(* elements.                                                               *)
(***************************************************************************)
MaxKeys == 3

TypingDocs == {d \in InitDocs : Len(d.c) = 1 /\ Cardinality(CharsOf(d)) = MaxSize - MaxEls}

InitTyping ==
  /\ doc \in TypingDocs
  /\ sel \in {s \in Selections(doc) : collapsed(s)}
  /\ activeTags = enclosingTags(doc, sel)
  /\ toggledTags = <<>>
  /\ isToggling = FALSE
  /\ timers = <<>>
  /\ caretEvents = 0
  /\ budget = MaxKeys
  /\ last = NoCommand
  /\ before = NoCommand
  /\ sinceToggle = GuardTicks
  /\ ScrubIdle

NextTyping ==
  \/ \E tagName \in ToggleNames : ToggleCaret(tagName)
  \/ TimerTick
  \/ CaretChange
  \/ Keypress

SpecTyping == InitTyping /\ [][NextTyping]_vars

(***************************************************************************)
(* A call of the scrubber on a fragment.  The recursion of scrub is held   *)
(* in todo: a node's children and the closing of its leaf or inline        *)
(* context go before the calls that were pending.                          *)
(***************************************************************************)
MaxNodes == 3

MaxNesting == 3

\* the kinds of element the fragments are built from
ElementKinds ==
  {El(t, {}, <<>>) : t \in {"P", "UL", "LI", "B", "DIV", "SPAN", "MINI-CARD"}}
    \cup {El("A", {<<"href", "javascript:alert(1)">>, <<"data-bg", "red">>}, <<>>),
          El("MARK", {<<"href", "http://a">>, <<"data-bg", "red">>}, <<>>),
          El("EM", {<<"class", "x">>, <<"constructor", "x">>}, <<>>)}

\* the nodes that are no elements: a text, a blank text, a comment
OtherKinds == {Text(<<1>>), Text(<<Blank>>), Comment(<<1>>)}

\* the inline and the block element that may hold each other, and the text
NestingKinds == {El(t, {}, <<>>) : t \in {"B", "DIV"}}

\* the forests of exactly n nodes, nested at most d deep, of the given kinds,
\* the nodes numbered from k on in document order
RECURSIVE Fragments(_, _, _, _, _)
Fragments(n, d, k, kinds, others) ==
  IF n = 0 THEN {<<>>}
  ELSE IF d = 0 THEN {}
  ELSE UNION {
    LET firsts ==
          IF m = 0 THEN kinds \cup {[x EXCEPT !.s = IF @ = <<Blank>> THEN @ ELSE <<k>>] : x \in others}
          ELSE {[e EXCEPT !.c = f] : e \in kinds, f \in Fragments(m, d - 1, k + 1, kinds, others)}
    IN {<<y[1]>> \o y[2] : y \in firsts \X Fragments(n - 1 - m, d, k + 1 + m, kinds, others)}
    : m \in 0..(n - 1)}

\* every fragment of up to MaxNodes nodes, and those of one node more that
\* are made of inline and block elements and text
Inputs ==
  UNION {Fragments(n, MaxNesting, 1, ElementKinds, OtherKinds) : n \in 1..MaxNodes}
    \cup Fragments(MaxNodes + 1, MaxNesting, 1, NestingKinds, {Text(<<1>>)})

InitScrub ==
  /\ input \in Inputs
  /\ todo = <<>>
  /\ ctx = scrubContext
  /\ phase = "idle"
  /\ doc = El("ROOT", {}, <<>>)
  /\ sel = Rng(<<>>, 0, <<>>, 0)
  /\ activeTags = {}
  /\ toggledTags = <<>>
  /\ isToggling = FALSE
  /\ timers = <<>>
  /\ caretEvents = 0
  /\ budget = 0
  /\ last = NoCommand
  /\ before = NoCommand
  /\ sinceToggle = GuardTicks

\* the scrubber is called, lines 446-456: the context is made and the
\* top-level nodes that are kept are queued
Scrub ==
  /\ phase = "idle"
  /\ phase' = "scrubbing"
  /\ ctx' = scrubContext
  /\ todo' = scrubTasks(SelectSeq(input, keepTopLevel))
  /\ UNCHANGED input
  /\ UNCHANGED sessionVars

Scrubbing(branch) ==
  /\ phase = "scrubbing"
  /\ todo # <<>>
  /\ Head(todo).k = "scrub"
  /\ scrubBranch(Head(todo).node, ctx) = branch

\* lines 413-417
ScrubCard ==
  /\ Scrubbing("card")
  /\ ctx' = closeLeaf(addLeaf(ctx, Head(todo).node))
  /\ todo' = Tail(todo)
  /\ UNCHANGED <<input, phase>>
  /\ UNCHANGED sessionVars

\* promoteToLeaf, lines 400-404, up to the scrubbing of the children
PromoteToLeaf ==
  /\ Scrubbing("promoteToLeaf")
  /\ ctx' = addLeaf(ctx, sanitizeLeaf(Head(todo).node))
  /\ todo' = scrubTasks(Head(todo).node.c) \o <<[k |-> "closeLeaf"]>> \o Tail(todo)
  /\ UNCHANGED <<input, phase>>
  /\ UNCHANGED sessionVars

\* addInline, lines 406-410, up to the scrubbing of the children
AddInline ==
  /\ Scrubbing("addInline")
  /\ LET me == ctxAddInline(ctx, sanitizeInline(Head(todo).node))
     IN /\ ctx' = me
        /\ IF me.thrown THEN todo' = <<>> /\ phase' = "thrown"
           ELSE /\ todo' = scrubTasks(Head(todo).node.c) \o <<[k |-> "closeInline"]>> \o Tail(todo)
                /\ UNCHANGED phase
  /\ UNCHANGED input
  /\ UNCHANGED sessionVars

\* a node that is no element, lines 428-431
ScrubText ==
  /\ Scrubbing("text")
  /\ LET me == ctxAddInline(ctx, Head(todo).node)
     IN /\ ctx' = me
        /\ IF me.thrown THEN todo' = <<>> /\ phase' = "thrown"
           ELSE todo' = Tail(todo) /\ UNCHANGED phase
  /\ UNCHANGED input
  /\ UNCHANGED sessionVars

\* any other element: its children in the context as it is, line 443
ScrubChildren ==
  /\ Scrubbing("scrubChildren")
  /\ todo' = scrubTasks(Head(todo).node.c) \o Tail(todo)
  /\ UNCHANGED <<input, ctx, phase>>
  /\ UNCHANGED sessionVars

\* ctx.closeLeaf() at the end of promoteToLeaf
CloseLeaf ==
  /\ phase = "scrubbing"
  /\ todo # <<>>
  /\ Head(todo).k = "closeLeaf"
  /\ ctx' = closeLeaf(ctx)
  /\ todo' = Tail(todo)
  /\ UNCHANGED <<input, phase>>
  /\ UNCHANGED sessionVars

\* ctx.closeInline() at the end of addInline
CloseInline ==
  /\ phase = "scrubbing"
  /\ todo # <<>>
  /\ Head(todo).k = "closeInline"
  /\ ctx' = closeInline(ctx)
  /\ todo' = Tail(todo)
  /\ UNCHANGED <<input, phase>>
  /\ UNCHANGED sessionVars

\* return ctx.frag
Return ==
  /\ phase = "scrubbing"
  /\ todo = <<>>
  /\ phase' = "returned"
  /\ UNCHANGED <<input, todo, ctx>>
  /\ UNCHANGED sessionVars

NextScrub ==
  \/ Scrub
  \/ ScrubCard
  \/ PromoteToLeaf
  \/ AddInline
  \/ ScrubText
  \/ ScrubChildren
  \/ CloseLeaf
  \/ CloseInline
  \/ Return

SpecScrub == InitScrub /\ [][NextScrub]_vars

(***************************************************************************)
(* What the claims speak of.                                               *)
(***************************************************************************)
\* the characters below the nodes, in those that have a matching ancestor
RECURSIVE EnclosedChars(_, _)
EnclosedChars(n, selector) ==
  IF IsText(n) THEN {}
  ELSE UNION {IF Matches(n.c[i], selector) THEN CharsOf(n.c[i])
              ELSE EnclosedChars(n.c[i], selector) : i \in 1..Len(n.c)}

\* the characters inside a range
SelectedChars(root, r) ==
  LET frag == extractContents(root, r).frag
  IN UNION {CharsOf(frag[i]) : i \in 1..Len(frag)}

\* the decision a toggleInline call took for its selection
Enabled(cmd) == shouldEnable(cmd.doc, normalizeSelector(cmd.tag), inlinableRanges(cmd.doc, cmd.sel))

LastEnabled == Enabled(last)

ToggledSelection == last.op = "toggleSelection"

\* the spellings of the tag names and the logical tag each stands for
Spellings == {"b", "B", "strong", "Strong", "STRONG", "i", "I", "em", "EM", "mark", "MARK"}

LogicalTag(name) ==
  IF name \in {"b", "B", "strong", "Strong", "STRONG"} THEN "STRONG"
  ELSE IF name \in {"i", "I", "em", "EM"} THEN "EM"
  ELSE IF name \in {"mark", "MARK"} THEN "MARK"
  ELSE name

SetOf(seq) == {seq[i] : i \in 1..Len(seq)}

\* the characters below a node with, for each, the normalized tags of the
\* elements around it from the outermost in
RECURSIVE Nesting(_, _)
Nesting(n, outer) ==
  IF IsText(n) THEN {<<n.s[i], outer>> : i \in 1..Len(n.s)}
  ELSE UNION {Nesting(n.c[i], IF isRoot(n) THEN <<i>> ELSE Append(outer, normalizeTagName(n.t)))
              : i \in 1..Len(n.c)}

\* the visible text: the characters in document order
RECURSIVE TextOf(_)
TextOf(n) ==
  IF IsText(n) THEN n.s
  ELSE IF n.c = <<>> THEN <<>>
  ELSE TextOf(n.c[1]) \o TextOf([n EXCEPT !.c = Tail(@)])

\* same visible text, same block and same tag nesting for every character
Equivalent(x, y) == TextOf(x) = TextOf(y) /\ Nesting(x, <<>>) = Nesting(y, <<>>)

\* a matching element with a matching ancestor
RECURSIVE HasNesting(_, _, _)
HasNesting(n, selector, inside) ==
  \E i \in 1..Len(n.c) :
    \/ inside /\ Matches(n.c[i], selector)
    \/ HasNesting(n.c[i], selector, inside \/ Matches(n.c[i], selector))

\* a text node without characters
RECURSIVE HasEmptyText(_)
HasEmptyText(n) ==
  IF IsText(n) THEN n.s = <<>> ELSE \E i \in 1..Len(n.c) : HasEmptyText(n.c[i])

\* two matching elements side by side
RECURSIVE HasAdjacent(_, _)
HasAdjacent(n, selector) ==
  \/ \E i \in 1..(Len(n.c) - 1) : Matches(n.c[i], selector) /\ Matches(n.c[i + 1], selector)
  \/ \E i \in 1..Len(n.c) : HasAdjacent(n.c[i], selector)

SpansBlocks(r) == r.sc[1] # r.ec[1]

(***************************************************************************)
(* The claims.                                                             *)
(***************************************************************************)
\* C1: a toggle over a selection changes the tag over exactly the selected
\* text: a character outside the selection is enclosed by a matching element
\* afterwards iff it was before, a selected one is enclosed after an apply
\* and by none after a remove.
C1_ExactlySelected ==
  ToggledSelection =>
    LET selector == normalizeSelector(last.tag)
        selected == SelectedChars(last.doc, last.sel)
    IN \A ch \in CharsOf(last.doc) :
         IF ch \in selected
         THEN (ch \in EnclosedChars(doc, selector)) = LastEnabled
         ELSE (ch \in EnclosedChars(doc, selector)) = (ch \in EnclosedChars(last.doc, selector))

ToggledTwice ==
  /\ last.op = "toggleSelection"
  /\ before.op = "toggleSelection"
  /\ last.tag = before.tag

\* C2 as stated: toggling the same tag twice over a selection gives back a
\* tree equivalent to the original one: the same visible text and for every
\* character the same nesting of tags.
C2_TwiceRestores == ToggledTwice => Equivalent(doc, before.doc)

\* C2 as amended: toggling the same tag twice gives back an equivalent tree
\* when the selection lies within one block, the first call applies the tag
\* and no selected character was inside a matching element before.
C2_TwiceRestoresApplied ==
  (/\ ToggledTwice
   /\ ~SpansBlocks(before.sel)
   /\ Enabled(before)
   /\ SelectedChars(before.doc, before.sel)
        \cap EnclosedChars(before.doc, normalizeSelector(before.tag)) = {})
    => Equivalent(doc, before.doc)

\* an apply next to a matching element, merged into it, and then taken back
C2_Witness ==
  /\ ToggledTwice
  /\ ~SpansBlocks(before.sel)
  /\ Enabled(before)
  /\ SelectedChars(before.doc, before.sel) # {}
  /\ SelectedChars(before.doc, before.sel)
       \cap EnclosedChars(before.doc, normalizeSelector(before.tag)) = {}
  /\ EnclosedChars(before.doc, normalizeSelector(before.tag)) # {}
  /\ ~Equivalent(last.doc, before.doc)
  /\ Equivalent(doc, before.doc)

\* C3: a toggle over a selection leaves no matching element with a matching
\* ancestor, direct or indirect; stated for the trees that had none before.
C3_NoNesting ==
  (ToggledSelection /\ ~HasNesting(last.doc, normalizeSelector(last.tag), FALSE))
    => ~HasNesting(doc, normalizeSelector(last.tag), FALSE)

\* the sibling next to the i-th child in the direction of step, text nodes
\* without characters passed over
RECURSIVE Neighbour(_, _, _)
Neighbour(kids, i, step) ==
  IF i < 1 \/ i > Len(kids) THEN None
  ELSE IF IsText(kids[i]) /\ kids[i].s = <<>> THEN Neighbour(kids, i + step, step)
  ELSE <<i>>

HasMatchingNeighbour(root, p, selector) ==
  LET kids == NodeAt(root, Front(p)).c
      prev == Neighbour(kids, Last(p) - 1, -1)
      next == Neighbour(kids, Last(p) + 1, 1)
  IN \/ prev # None /\ Matches(kids[prev[1]], selector)
     \/ next # None /\ Matches(kids[next[1]], selector)

\* C4: after an apply the resulting element has no neighbour before or behind
\* it that matches the same selector: neighbouring elements of the same
\* logical tag have been merged into one; stated for the trees that had no
\* two matching elements side by side and no empty text node before.
C4_NeighboursMerged ==
  (/\ ToggledSelection /\ LastEnabled
   /\ ~HasAdjacent(last.doc, normalizeSelector(last.tag))
   /\ ~HasEmptyText(last.doc))
    => \A p \in {sel.sc, sel.ec} :
         Matches(NodeAt(doc, p), normalizeSelector(last.tag))
           => ~HasMatchingNeighbour(doc, p, normalizeSelector(last.tag))

RECURSIVE HasBlockInside(_)
HasBlockInside(n) == \E i \in 1..Len(n.c) : isBlock(n.c[i]) \/ HasBlockInside(n.c[i])

\* C5: an apply over a selection that spans blocks wraps block by block: the
\* blocks stay the top-level nodes, each keeps its own text and holds no block,
\* so that no matching element holds a block or text of two blocks, and every
\* selected character is inside a matching element of its block.
C5_WrapperPerBlock ==
  (ToggledSelection /\ LastEnabled /\ SpansBlocks(last.sel)) =>
    /\ Len(doc.c) = Len(last.doc.c)
    /\ \A i \in 1..Len(doc.c) :
         /\ doc.c[i].t = "P"
         /\ ~HasBlockInside(doc.c[i])
         /\ TextOf(doc.c[i]) = TextOf(last.doc.c[i])
    /\ SelectedChars(last.doc, last.sel) \subseteq EnclosedChars(doc, normalizeSelector(last.tag))

\* an apply from the middle of one paragraph to the middle of the next
C5_Witness ==
  /\ ToggledSelection /\ LastEnabled /\ SpansBlocks(last.sel)
  /\ \A i \in {last.sel.sc[1], last.sel.ec[1]} :
       /\ CharsOf(last.doc.c[i]) \cap SelectedChars(last.doc, last.sel) # {}
       /\ CharsOf(last.doc.c[i]) \ SelectedChars(last.doc, last.sel) # {}

\* C6: in every state of the session isActive(tagName) is true iff exactly
\* one of the two holds for the logical tag the name stands for: it is in
\* activeTags, it is in toggledTags.
C6_IsActiveXor ==
  \A name \in Spellings :
    isActive(name) = ((LogicalTag(name) \in activeTags) # (LogicalTag(name) \in SetOf(toggledTags)))

\* the caret is inside a tag that has been toggled, under some spelling
C6_Witness ==
  \E name \in Spellings :
    /\ name # LogicalTag(name)
    /\ LogicalTag(name) \in activeTags
    /\ LogicalTag(name) \in SetOf(toggledTags)
    /\ ~isActive(name)

Flip(tags, name) == IF name \in tags THEN tags \ {name} ELSE tags \cup {name}

\* a step that is a toggleInline call with a collapsed selection
CaretToggled == budget' = budget - 1 /\ last'.op = "toggleCaret"

\* C7: toggleInline with a collapsed selection changes neither the tree nor
\* the selection nor activeTags; it sets the guard and flips the logical tag
\* in toggledTags, so that a second such call for the same logical tag right
\* after the first leaves toggledTags and every isActive value as they were
\* before the first.
C7_CollapsedToggleFrame ==
  [][/\ CaretToggled =>
          /\ doc' = doc /\ sel' = sel /\ activeTags' = activeTags
          /\ isToggling'
          /\ SetOf(toggledTags') = Flip(SetOf(toggledTags), LogicalTag(last'.tag))
     /\ (/\ CaretToggled /\ last.op = "toggleCaret"
         /\ LogicalTag(last.tag) = LogicalTag(last'.tag)
         /\ activeTags = last.activeTags
         /\ SetOf(toggledTags) = Flip(SetOf(last.toggledTags), LogicalTag(last.tag)))
        => /\ SetOf(toggledTags') = SetOf(last.toggledTags)
           /\ \A name \in Spellings :
                isActiveIn(activeTags', toggledTags', name)
                  = isActiveIn(last.activeTags, last.toggledTags, name)]_vars

\* two collapsed toggles of one logical tag under two spellings, the second
\* right after the first
C7_Witness ==
  /\ last.op = "toggleCaret" /\ before.op = "toggleCaret"
  /\ last.tag # before.tag /\ LogicalTag(last.tag) = LogicalTag(before.tag)
  /\ last.toggledTags # before.toggledTags
  /\ SetOf(toggledTags) = SetOf(before.toggledTags)
  /\ isToggling

KeyPressed == last.op = "keypress"

\* the number of characters in front of the start of a range
CaretOffset(root, r) == Cardinality(SelectedChars(root, Rng(<<>>, 0, r.sc, r.so)))

InsertAt(s, k, ch) == SubSeq(s, 1, k) \o <<ch>> \o SubSeq(s, k + 1, Len(s))

\* C8: a key press at a caret with pending tags inserts the character once,
\* at the caret; the character is inside an element of a tag iff isActive of
\* the tag held just before the key press; toggledTags is empty afterwards.
C8_TypedCharToggled ==
  (KeyPressed /\ collapsed(last.sel) /\ last.toggledTags # <<>>) =>
    LET ch == TypedChar(last.doc)
    IN /\ TextOf(doc) = InsertAt(TextOf(last.doc), CaretOffset(last.doc, last.sel), ch)
       /\ \A name \in ToggleNames :
            (ch \in EnclosedChars(doc, normalizeSelector(name)))
              = isActiveIn(last.activeTags, last.toggledTags, name)
       /\ toggledTags = <<>>

\* the policy as the specification words it
PolicyLeafTags == {"P", "BLOCKQUOTE", "H1", "H2", "H3", "H4", "UL", "OL"}

PolicyChildTags == {"A", "I", "B", "BR", "STRONG", "EM", "MARK", "LI"}

Returned == phase = "returned"

\* the top-level nodes of scrub's output
Output == ctx.frag.c

\* the nodes below a node, each with the tag of its parent
RECURSIVE Nested(_)
Nested(n) ==
  UNION {{[parent |-> n.t, node |-> n.c[i]]} \cup Nested(n.c[i]) : i \in 1..Len(n.c)}

\* C9 as stated: every top-level node of scrub's output is an element whose
\* tag is a policy leaf tag.
C9_TopLevelLeafTags ==
  Returned => \A i \in 1..Len(Output) : isElement(Output[i]) /\ Output[i].t \in PolicyLeafTags

\* C9 as amended: every top-level node of scrub's output is an element whose
\* tag is a policy leaf tag, or is a Card of the input; a node of the input
\* that is neither, kept by the filter, is not a top-level node of the output.
C9_TopLevelLeafOrCard ==
  Returned =>
    /\ \A i \in 1..Len(Output) :
         \/ isElement(Output[i]) /\ Output[i].t \in PolicyLeafTags
         \/ isCard(Output[i])
              /\ Output[i] \in {x.node : x \in Nested(El("#fragment", {}, input))}
    /\ \A j \in 1..Len(input) :
         (input[j].t \notin PolicyLeafTags /\ ~isCard(input[j]))
           => \A i \in 1..Len(Output) : Output[i].t # input[j].t

\* stray text, an inline element, a block that is no policy leaf and a Card
\* have been scrubbed
C9_Witness ==
  /\ Returned
  /\ \E i \in 1..Len(Output) : isCard(Output[i])
  /\ \E i \in 1..Len(Output) : Output[i].t = "P"
  /\ \E j \in 1..Len(input) : input[j].t \in {"#text", "B", "DIV"}

\* C10 as stated: every node nested inside a top-level leaf of the output is
\* a Text node, a Card, or an element whose tag is a policy child tag.
C10_NestedChildTags ==
  Returned =>
    \A i \in 1..Len(Output) :
      ~isCard(Output[i]) =>
        \A x \in Nested(Output[i]) :
          IsText(x.node) \/ isCard(x.node) \/ x.node.t \in PolicyChildTags

\* C10 as amended: every node nested inside a top-level leaf of the output
\* that is no Card is a node that is no element (a text, a comment), an
\* element whose tag is a policy child tag, or a list that is the child of a
\* list item.
C10_NestedChildOrList ==
  Returned =>
    \A i \in 1..Len(Output) :
      ~isCard(Output[i]) =>
        \A x \in Nested(Output[i]) :
          \/ ~isElement(x.node)
          \/ x.node.t \in PolicyChildTags
          \/ x.node.t \in {"UL", "OL"} /\ x.parent = "LI"

\* a list inside a list item has been scrubbed, and text beside it
C10_Witness ==
  /\ Returned
  /\ \E i \in 1..Len(Output) : \E x \in Nested(Output[i]) :
       x.node.t \in {"UL", "OL"} /\ x.parent = "LI"
  /\ \E i \in 1..Len(Output) : \E x \in Nested(Output[i]) : IsText(x.node)

(***************************************************************************)
(* The attributes of the output.                                           *)
(***************************************************************************)
\* the Tag Policy as the specification words it: an anchor may carry an href
\* that does not begin "javascript:", a mark may carry data-bg, and no other
\* tag has an attribute rule
PolicyAttribute(tagName, a, val) ==
  \/ tagName = "A" /\ a = "href" /\ ~startsWithJavascript(val)
  \/ tagName = "MARK" /\ a = "data-bg"

\* the elements of a forest, at any depth
RECURSIVE Elements(_)
Elements(nodes) ==
  UNION {(IF isElement(nodes[i]) THEN {nodes[i]} \cup Elements(nodes[i].c) ELSE {})
           : i \in 1..Len(nodes)}

\* C11: every attribute of every element of scrub's output is named in the
\* Tag Policy entry of the element's tag and satisfies the entry's rule; no
\* anchor has an href that begins "javascript:" and an element whose tag has
\* no attribute rule has no attribute.
C11_AttributesInPolicy ==
  Returned =>
    \A n \in Elements(Output) : \A x \in n.a : PolicyAttribute(n.t, x[1], x[2])

\* C11 for the elements that scrub made itself, the Cards and what is inside
\* them left aside: every attribute is named in the Tag Policy entry of the
\* element's tag and satisfies its rule.
C11_SanitizedAttributesInPolicy ==
  Returned =>
    \A n \in Elements(SelectSeq(Output, LAMBDA o : ~isCard(o))) :
      \A x \in n.a : PolicyAttribute(n.t, x[1], x[2])

(***************************************************************************)
(* The scrubber as a function: the same calls as the actions make, run to  *)
(* the end.  A throw ends the run.                                         *)
(***************************************************************************)
RECURSIVE scrubAll(_, _)
scrubAll(tasks, me) ==
  IF tasks = <<>> \/ me.thrown THEN me
  ELSE LET t == Head(tasks)
       IN IF t.k = "closeLeaf" THEN scrubAll(Tail(tasks), closeLeaf(me))
          ELSE IF t.k = "closeInline" THEN scrubAll(Tail(tasks), closeInline(me))
          ELSE LET branch == scrubBranch(t.node, me)
               IN IF branch = "card"
                    THEN scrubAll(Tail(tasks), closeLeaf(addLeaf(me, t.node)))
                  ELSE IF branch = "promoteToLeaf"
                    THEN scrubAll(scrubTasks(t.node.c) \o <<[k |-> "closeLeaf"]>> \o Tail(tasks),
                                  addLeaf(me, sanitizeLeaf(t.node)))
                  ELSE IF branch = "addInline"
                    THEN scrubAll(scrubTasks(t.node.c) \o <<[k |-> "closeInline"]>> \o Tail(tasks),
                                  ctxAddInline(me, sanitizeInline(t.node)))
                  ELSE IF branch = "text"
                    THEN scrubAll(Tail(tasks), ctxAddInline(me, t.node))
                  ELSE scrubAll(scrubTasks(t.node.c) \o Tail(tasks), me)

\* the returned scrubber, lines 446-459: the context it ends with
scrubber(frag) == scrubAll(scrubTasks(SelectSeq(frag, keepTopLevel)), scrubContext)

\* the function and the actions agree on every call that has ended
ScrubberAgrees ==
  /\ Returned => scrubber(input) = ctx
  /\ phase = "thrown" => scrubber(input).thrown

\* C12: scrub is idempotent: scrubbing the output of scrub once more returns
\* a fragment equal to that output, with the same elements, nesting,
\* attributes and text in the same order.
C12_Idempotent ==
  Returned => ~scrubber(Output).thrown /\ scrubber(Output).frag.c = Output

\* the text nodes and the Cards of a forest in document order, a Card taken
\* whole
RECURSIVE ContentOf(_)
ContentOf(nodes) ==
  IF nodes = <<>> THEN <<>>
  ELSE LET n == Head(nodes)
       IN (IF isCard(n) \/ IsText(n) THEN <<n>>
           ELSE IF isElement(n) THEN ContentOf(n.c)
           ELSE <<>>) \o ContentOf(Tail(nodes))

\* C13: scrub preserves the order of the content: the text nodes and Cards
\* of the output, in document order, are those of the input in document
\* order, without the top-level nodes that are white space only or childless
\* elements; no text is lost, duplicated or reordered.
C13_ContentOrder ==
  Returned => ContentOf(Output) = ContentOf(SelectSeq(input, keepTopLevel))

\* a text and a Card, one of them inside an element, have been scrubbed
C13_Witness ==
  /\ Returned
  /\ Len(ContentOf(Output)) >= 2
  /\ \E i \in 1..Len(ContentOf(Output)) : isCard(ContentOf(Output)[i])
  /\ \E i \in 1..Len(ContentOf(Output)) : IsText(ContentOf(Output)[i])
  /\ \E j \in 1..Len(input) : isElement(input[j]) /\ ~isCard(input[j]) /\ input[j].c # <<>>

\* C18: at every step of a scrub pass the context is consistent: a leaf is
\* open exactly when the stack of open elements is not empty, the bottom of
\* the stack is that leaf, so addInline always has an element to append to,
\* and scrub does not throw.
C18_ContextConsistent ==
  /\ (ctx.leaf # None) = (ctx.stack # <<>>)
  /\ ctx.stack # <<>> => ctx.stack[1] = ctx.leaf
  /\ ~ctx.thrown
  /\ phase # "thrown"

\* C18, the last part alone: scrub completes without throwing
C18_NeverThrows == phase # "thrown"

(***************************************************************************)
(* The guard of the collapsed toggle and the caret-change handler.         *)
(***************************************************************************)
\* toggledTags as the collapsed toggle of a command left it
ToggleResult(cmd) ==
  IF has(cmd.toggledTags, normalizeTagName(cmd.tag))
  THEN delete(cmd.toggledTags, normalizeTagName(cmd.tag))
  ELSE Append(cmd.toggledTags, normalizeTagName(cmd.tag))

\* a step that delivers a caret-change event
CaretChanged == caretEvents' = caretEvents - 1

\* a step that delivers the caret-change event of the last collapsed toggle
\* before two timeouts have fired since that toggle
OwnCaretChanged == CaretChanged /\ last.op = "toggleCaret" /\ sinceToggle < GuardTicks

\* C14: a caret-change event fired by a collapsed toggle's own restoring of
\* the selection, delivered within two timer ticks of that toggle, does not
\* clear the pending tags: toggledTags holds the toggle's result after the
\* event, also when an earlier toggle's timer is still pending.
C14_OwnEventKeepsPending ==
  [][OwnCaretChanged => toggledTags' = ToggleResult(last)]_vars

\* C14 for a toggle that is requested when no earlier toggle's timer is
\* pending: its own caret-change event, delivered within two timer ticks,
\* leaves toggledTags as the toggle set it.
C14_OwnEventKeepsPendingAlone ==
  [][(OwnCaretChanged /\ timers = <<GuardTicks - sinceToggle>>)
       => toggledTags' = ToggleResult(last)]_vars

\* the normalized tag names of the elements around a boundary point, below
\* the root: the container when it is an element, and its ancestors
RECURSIVE TagsAround(_, _)
TagsAround(root, p) ==
  IF p = <<>> THEN {}
  ELSE (IF isElement(NodeAt(root, p)) THEN {normalizeTagName(NodeAt(root, p).t)} ELSE {})
         \cup TagsAround(root, Front(p))

\* C15: after every caret-change event that is handled, activeTags is the
\* set of the normalized tag names of the elements that enclose the caret
\* below the root, and toggledTags is empty.
C15_CaretMoveRecomputes ==
  [][CaretChanged => (activeTags' = TagsAround(doc', sel'.sc) /\ toggledTags' = <<>>)]_vars

\* C15 for the events the handler does not skip for the guard of a toggle:
\* after the handler ran, activeTags is the set of the normalized tag names
\* of the elements that enclose the caret below the root, and toggledTags is
\* empty.
C15_UnguardedCaretMoveRecomputes ==
  [][(CaretChanged /\ ~isToggling)
       => (activeTags' = TagsAround(doc', sel'.sc) /\ toggledTags' = <<>>)]_vars

(***************************************************************************)
(* The remove mode.                                                        *)
(***************************************************************************)
\* of the elements around a character, as Nesting lists them behind the
\* index of the block, the inline ones that do not stand for the tag
OtherInline(around, tagName) ==
  SelectSeq(SubSeq(around, 2, Len(around)),
            LAMBDA t : t # normalizeTagName(tagName) /\ ~isBlock(El(t, {}, <<>>)))

\* C16: after a toggle in remove mode every selected character is enclosed
\* by the same inline elements of other tags as before: the same tags in
\* the same nesting order, each as many times as before.
C16_OtherAncestorsKept ==
  (ToggledSelection /\ ~LastEnabled) =>
    \A x \in Nesting(last.doc, <<>>) :
      x[1] \in SelectedChars(last.doc, last.sel) =>
        \E y \in Nesting(doc, <<>>) :
          y[1] = x[1] /\ OtherInline(y[2], last.tag) = OtherInline(x[2], last.tag)

\* the start of a range lies inside a matching element
StartEnclosed(root, r, selector) ==
  \E k \in 1..Len(r.sc) : Matches(NodeAt(root, SubSeq(r.sc, 1, k)), selector)

\* the content of a range holds a matching element, or a part of one
HoldsMatch(root, r, selector) ==
  Contains(El("#fragment", {}, extractContents(root, r).frag), selector)

\* the sub-ranges of the selection of a command
SubRanges(cmd) == inlinableRanges(cmd.doc, cmd.sel)

Toggled == last.op \in {"toggleSelection", "toggleCaret"}

\* C19: toggleInline does not change the text of the document: after the
\* call the characters in document order are those from before, and every
\* block holds the characters it held, for a caret and for a selection, in
\* apply and in remove mode, in one block and over several.
C19_TextKept ==
  Toggled =>
    /\ TextOf(doc) = TextOf(last.doc)
    /\ Len(doc.c) = Len(last.doc.c)
    /\ \A i \in 1..Len(doc.c) : doc.c[i].t = last.doc.c[i].t /\ TextOf(doc.c[i]) = TextOf(last.doc.c[i])

\* a selection over two blocks got the tag and lost it again, the tree
\* changing both times
C19_Witness ==
  /\ ToggledSelection
  /\ before.op = "toggleSelection"
  /\ Enabled(before)
  /\ ~LastEnabled
  /\ SpansBlocks(last.sel)
  /\ last.doc # before.doc
  /\ doc # last.doc

(***************************************************************************)
(* The session on documents with links: the documents of SpecTyping with   *)
(* an anchor that carries an href in place of every em element, and every  *)
(* selection in them.                                                      *)
(***************************************************************************)
RECURSIVE WithAnchors(_)
WithAnchors(n) ==
  IF IsText(n) THEN n
  ELSE [n EXCEPT !.t = IF @ = "EM" THEN "A" ELSE @,
                 !.a = IF n.t = "EM" THEN {<<"href", "http://a">>} ELSE @,
                 !.c = [i \in 1..Len(n.c) |-> WithAnchors(n.c[i])]]

AnchorDocs == {WithAnchors(d) : d \in TypingDocs}

InitAnchors ==
  /\ doc \in AnchorDocs
  /\ sel \in Selections(doc)
  /\ activeTags = enclosingTags(doc, sel)
  /\ toggledTags = <<>>
  /\ isToggling = FALSE
  /\ timers = <<>>
  /\ caretEvents = 0
  /\ budget = MaxOps
  /\ last = NoCommand
  /\ before = NoCommand
  /\ sinceToggle = GuardTicks
  /\ ScrubIdle

SpecAnchors == InitAnchors /\ [][Next]_vars

\* the characters below a node with, for each, the inline elements around
\* it as pairs of tag and attributes
RECURSIVE Around(_, _)
Around(n, outer) ==
  IF IsText(n) THEN {<<n.s[i], outer>> : i \in 1..Len(n.s)}
  ELSE UNION {Around(n.c[i], IF isBlock(n) THEN outer ELSE outer \cup {<<n.t, n.a>>})
              : i \in 1..Len(n.c)}

\* C20: toggleInline leaves the attributes of the elements of other tags as
\* they are: an inline element that does not match the toggled tag and
\* encloses a character before the call encloses it after the call with the
\* same attributes, in apply and in remove mode.
C20_OtherAttributesKept ==
  Toggled =>
    \A x \in Around(last.doc, {}) :
      \E y \in Around(doc, {}) :
        /\ y[1] = x[1]
        /\ \A e \in x[2] : e[1] \notin normalizeSelector(last.tag) => e \in y[2]

\* C20 in apply mode: an inline element that does not match the toggled tag
\* and encloses a character before the call encloses it after the call with
\* the same attributes.
C20_OtherAttributesKeptApplied ==
  (Toggled /\ (ToggledSelection => LastEnabled)) =>
    \A x \in Around(last.doc, {}) :
      \E y \in Around(doc, {}) :
        /\ y[1] = x[1]
        /\ \A e \in x[2] : e[1] \notin normalizeSelector(last.tag) => e \in y[2]

====
